---- MODULE Spec2Model ----
(***************************************************************************)
(* State-machine model of src/src/components/DxfViewer.vue: the Vue         *)
(* component that hosts the dxf-viewer engine.  The component's reactive    *)
(* data() record, its dxfUrl watcher, the Load / _OnMouseMove / _OnProgress *)
(* methods and the mounted / destroyed hooks are translated handler by      *)
(* handler.  The engine (package "dxf-viewer") is the environment: it       *)
(* settles Load promises, calls the progress callback, owns the camera and  *)
(* the canvas and fires events.                                             *)
(*                                                                         *)
(* JavaScript values are tagged records so that null, strings, numbers and  *)
(* Error objects can be compared with each other.  Numbers are exact        *)
(* fractions n/d in lowest terms; d = 0 encodes the IEEE specials           *)
(* (1/0 = Infinity, -1/0 = -Infinity, 0/0 = NaN).                           *)
(***************************************************************************)
EXTENDS Integers, Sequences, FiniteSets, TLC

\* ------------------------------------------------------------------ bounds
MaxLoads == 2        \* Load calls started in one behaviour
MaxEmitted == 1      \* length of the outward event trace (load specification)
MaxEvents == 2       \* engine events fired in one behaviour (relay specification)

\* ------------------------------------------------------- JavaScript values
NULL == [t |-> "null"]
UNDEFINED == [t |-> "undefined"]
Str(s) == [t |-> "string", s |-> s]
Err(m) == [t |-> "Error", message |-> m]
TypeError(m) == [t |-> "TypeError", message |-> m]
ENGINE == [t |-> "DxfViewer"]

Abs(i) == IF i < 0 THEN -i ELSE i
Sign(i) == IF i < 0 THEN -1 ELSE IF i > 0 THEN 1 ELSE 0

RECURSIVE GCD(_, _)
GCD(a, b) == IF b = 0 THEN a ELSE GCD(b, a % b)

\* the number n/d, reduced; d = 0 gives Infinity, -Infinity or NaN
Num(n, d) ==
    IF d = 0 THEN [t |-> "number", n |-> Sign(n), d |-> 0]
    ELSE LET g == GCD(Abs(n), Abs(d))
             s == Sign(d)
         IN  [t |-> "number", n |-> (s * n) \div g, d |-> (s * d) \div g]
Int2Num(i) == Num(i, 1)
NaN == Num(0, 0)
IsFinite(a) == a.t = "number" /\ a.d # 0

JsNeg(a) == Num(-a.n, a.d)
JsAdd(a, b) ==
    IF a.d = 0 /\ b.d = 0
    THEN IF a = b THEN a ELSE NaN
    ELSE Num(a.n * b.d + b.n * a.d, a.d * b.d)
JsSub(a, b) == JsAdd(a, JsNeg(b))
JsMul(a, b) == Num(a.n * b.n, a.d * b.d)
Recip(b) == IF b.n = 0 THEN Num(b.d, 0) ELSE Num(b.d * Sign(b.n), Abs(b.n))
JsDiv(a, b) == JsMul(a, Recip(b))

\* JavaScript truthiness of the values the component tests with `!v`
Truthy(v) == v.t \notin {"null", "undefined"}

\* error.toString() for the values an engine load is rejected with
ErrorToString(v) ==
    CASE v.t = "string" -> Str(v.s)
      [] v.t = "Error" -> Str("Error: " \o v.message)
      [] v.t = "TypeError" -> Str("TypeError: " \o v.message)

\* ------------------------------------------------------------------ inputs
Urls == {Str("a.dxf"), Str("b.dxf")}
\* values the engine rejects a load with
RejectValues == {Err("fetch failed"), Str("bad file"), NULL}
\* phases the engine reports; "other" is outside the label table
Phases == {"font", "fetch", "parse", "prepare", "other"}
\* <<size, totalSize>> pairs of a progress callback
Sizes == {<<Int2Num(50), Int2Num(100)>>, <<Int2Num(10), NULL>>}
\* orthographic camera bounds the engine may expose
Camera(l, r, tp, b) ==
    [t |-> "camera", left |-> Int2Num(l), right |-> Int2Num(r),
     top |-> Int2Num(tp), bottom |-> Int2Num(b)]
Cameras == {Camera(-10, 10, 10, -10)}
\* bounding rectangles of the engine's canvas
Rect(l, tp, w, h) ==
    [t |-> "rect", left |-> Int2Num(l), top |-> Int2Num(tp),
     width |-> Int2Num(w), height |-> Int2Num(h)]
Rects == {Rect(0, 0, 200, 200)}
\* mouse events: <<clientX, clientY>>
MouseEvents == {[clientX |-> Int2Num(50), clientY |-> Int2Num(150)]}
\* richer inputs for the pointer-mapping and progress specifications
PointerCameras == {Camera(-10, 10, 10, -10), Camera(2, 10, 7, 1)}
PointerRects == {Rect(0, 0, 200, 200), Rect(10, 20, 100, 50),
                 Rect(0, 0, 0, 200), Rect(0, 0, 200, 0)}
PointerEvents ==
    {[clientX |-> Int2Num(c[1]), clientY |-> Int2Num(c[2])] :
        c \in {<<0, 0>>, <<100, 100>>, <<200, 200>>, <<60, 45>>}}
ProgressSizes ==
    Sizes \cup {<<Int2Num(150), Int2Num(100)>>, <<Int2Num(-5), Int2Num(100)>>,
                <<Int2Num(5), Int2Num(0)>>}
\* engine events and their payloads
EventNames == <<"loaded", "cleared", "destroyed", "resized", "pointerdown",
                "pointerup", "viewChanged", "message">>
EngineEventNames == {EventNames[i] : i \in 1..Len(EventNames)}
Payloads == {Str("p1"), Str("p2")}

\* ------------------------------------------------------------------- state
VARIABLES
    lifecycle,     \* "created" | "mounted" | "destroyed": hooks run so far
    dxfUrl,        \* the dxfUrl prop
    data,          \* the reactive data() record
    dxfViewer,     \* this.dxfViewer: UNDEFINED, ENGINE or NULL
    loads,         \* engine: one record per Load call, in call order
    camera,        \* engine: dxfViewer.camera, NULL when absent
    canvas,        \* engine: bounding rect of GetCanvas(), NULL when no canvas
    scene,         \* engine: "empty" | "loaded", what the renderer shows
    subscribers,   \* engine: event names subscribed to, one entry per handler
    engineLog,     \* engine: events fired so far
    emitted        \* outward surface: this.$emit calls so far

vars == <<lifecycle, dxfUrl, data, dxfViewer, loads, camera, canvas,
          scene, subscribers, engineLog, emitted>>

\* data(): the component's initial reactive state
Data ==
    [isLoading |-> FALSE, progress |-> NULL, progressText |-> NULL,
     curProgressPhase |-> NULL, error |-> NULL, coordinates |-> NULL]

Init ==
    /\ lifecycle = "created"
    /\ dxfUrl = NULL
    /\ data = Data
    /\ dxfViewer = UNDEFINED
    /\ loads = <<>>
    /\ camera = NULL
    /\ canvas = NULL
    /\ scene = "empty"
    /\ subscribers = <<>>
    /\ engineLog = <<>>
    /\ emitted = <<>>

\* ---------------------------------------------------------- Load (78-106)
NONE == [t |-> "none"]       \* "nothing thrown" / "resolved, no rejection value"

\* a Load call as the engine and the caller see it
NewLoad ==
    [status |-> "pending",   \* the engine's promise: pending | resolved | rejected
     value |-> NONE,         \* the value the engine rejected with
     result |-> "pending"]   \* Load()'s own promise: pending | fulfilled | rejected

\* LoadStart without line 80: the previous error is kept
LoadStartKeepsError(d) == [d EXCEPT !.isLoading = TRUE]

\* lines 79-80, run synchronously by the call
LoadStart(d) == [d EXCEPT !.isLoading = TRUE, !.error = NULL]

\* the half extent of the bounds taken for their centre
CameraHalfExtent(cam) ==
    [x |-> JsDiv(JsSub(cam.right, cam.left), Int2Num(2)),
     y |-> JsDiv(JsSub(cam.top, cam.bottom), Int2Num(2)),
     z |-> Int2Num(0)]

\* lines 91-95
CameraCentre(cam) ==
    [x |-> JsDiv(JsAdd(cam.left, cam.right), Int2Num(2)),
     y |-> JsDiv(JsAdd(cam.bottom, cam.top), Int2Num(2)),
     z |-> Int2Num(0)]

\* lines 88-96: the rest of the try block once the engine's promise resolved.
\* this.dxfViewer.camera throws when destroyed() has set dxfViewer to null.
LoadTry(d) ==
    IF ~Truthy(dxfViewer)
    THEN [data |-> d,
          thrown |-> TypeError("Cannot read properties of null (reading 'camera')")]
    ELSE [data |-> IF Truthy(camera)
                   THEN [d EXCEPT !.coordinates = CameraCentre(camera)]
                   ELSE d,
          thrown |-> NONE]

\* lines 97-99: error.toString() throws on a null or undefined error
LoadCatch(d, e) ==
    IF ~Truthy(e)
    THEN [data |-> d,
          thrown |-> TypeError("Cannot read properties of " \o e.t
                               \o " (reading 'toString')")]
    ELSE [data |-> [d EXCEPT !.error = ErrorToString(e)], thrown |-> NONE]

\* LoadFinally without line 101: isLoading is left as it was
LoadFinallyKeepsLoading(d) ==
    [d EXCEPT !.progressText = NULL, !.progress = NULL, !.curProgressPhase = NULL]

\* LoadFinally without line 103: progress is left as it was
LoadFinallyKeepsProgress(d) ==
    [d EXCEPT !.isLoading = FALSE, !.progressText = NULL, !.curProgressPhase = NULL]

\* LoadFinally without line 104: the recorded phase is left as it was
LoadFinallyKeepsPhase(d) ==
    [d EXCEPT !.isLoading = FALSE, !.progressText = NULL, !.progress = NULL]

\* lines 100-105
LoadFinally(d) ==
    [d EXCEPT !.isLoading = FALSE, !.progressText = NULL, !.progress = NULL,
              !.curProgressPhase = NULL]

\* the continuation of Load after `await this.dxfViewer.Load(...)`;
\* rejection = NONE when the engine resolved
LoadSettle(d, rejection) ==
    LET t == IF rejection = NONE THEN LoadTry(d)
             ELSE [data |-> d, thrown |-> rejection]
        c == IF t.thrown = NONE THEN t ELSE LoadCatch(t.data, t.thrown)
    IN  [data |-> LoadFinally(c.data), thrown |-> c.thrown]

\* ---------------------------------------------------- _OnProgress (154-177)
\* a label switch whose default case clears the label
ProgressLabelOtherClears(phase, old) ==
    CASE phase = "font" -> Str("Fetching fonts...")
      [] phase = "fetch" -> Str("Fetching file...")
      [] phase = "parse" -> Str("Parsing file...")
      [] phase = "prepare" -> Str("Preparing rendering data...")
      [] OTHER -> NULL

ProgressLabel(phase, old) ==
    CASE phase = "font" -> Str("Fetching fonts...")
      [] phase = "fetch" -> Str("Fetching file...")
      [] phase = "parse" -> Str("Parsing file...")
      [] phase = "prepare" -> Str("Preparing rendering data...")
      [] OTHER -> old

\* _OnProgress with the ratio clamped to [0, 1]
OnProgressClamped(d, phase, size, totalSize) ==
    LET d1 == IF Str(phase) # d.curProgressPhase
              THEN [d EXCEPT !.progressText = ProgressLabel(phase, @),
                             !.curProgressPhase = Str(phase)]
              ELSE d
        p == JsDiv(size, totalSize)
    IN  [d1 EXCEPT !.progress = IF totalSize = NULL THEN Int2Num(-1)
                                ELSE IF p.n < 0 THEN Int2Num(0)
                                ELSE IF p.n > p.d THEN Int2Num(1)
                                ELSE p]

OnProgress(d, phase, size, totalSize) ==
    LET d1 == IF Str(phase) # d.curProgressPhase
              THEN [d EXCEPT !.progressText = ProgressLabel(phase, @),
                             !.curProgressPhase = Str(phase)]
              ELSE d
    IN  [d1 EXCEPT !.progress = IF totalSize = NULL THEN Int2Num(-1)
                                ELSE JsDiv(size, totalSize)]

\* --------------------------------------------------- watch.dxfUrl (64-75)
\* the clear branch resetting progress to 0 instead of null
WatchClearZeroProgress(d) ==
    [d EXCEPT !.error = NULL, !.isLoading = FALSE, !.progress = Int2Num(0)]

\* lines 69-72: the else branch, taken when the URL becomes null
WatchClear(d) == [d EXCEPT !.error = NULL, !.isLoading = FALSE, !.progress = NULL]

\* -------------------------------------------------- _OnMouseMove (113-152)
\* MapPointer without the sign flip of line 129: device Y taken as growing upward
MapPointerNoFlip(event, rect, cam) ==
    LET x == JsSub(event.clientX, rect.left)
        y == JsSub(event.clientY, rect.top)
        ndcX == JsSub(JsMul(JsDiv(x, rect.width), Int2Num(2)), Int2Num(1))
        ndcY == JsSub(JsMul(JsDiv(y, rect.height), Int2Num(2)), Int2Num(1))
        camWidth == JsSub(cam.right, cam.left)
        camHeight == JsSub(cam.top, cam.bottom)
        worldX == JsAdd(cam.left,
                        JsDiv(JsMul(JsAdd(ndcX, Int2Num(1)), camWidth), Int2Num(2)))
        worldY == JsAdd(cam.bottom,
                        JsDiv(JsMul(JsAdd(ndcY, Int2Num(1)), camHeight), Int2Num(2)))
    IN  [x |-> worldX, y |-> worldY, z |-> Int2Num(0)]

MapPointer(event, rect, cam) ==
    LET x == JsSub(event.clientX, rect.left)
        y == JsSub(event.clientY, rect.top)
        ndcX == JsSub(JsMul(JsDiv(x, rect.width), Int2Num(2)), Int2Num(1))
        ndcY == JsAdd(JsMul(JsNeg(JsDiv(y, rect.height)), Int2Num(2)), Int2Num(1))
        camWidth == JsSub(cam.right, cam.left)
        camHeight == JsSub(cam.top, cam.bottom)
        worldX == JsAdd(cam.left,
                        JsDiv(JsMul(JsAdd(ndcX, Int2Num(1)), camWidth), Int2Num(2)))
        worldY == JsAdd(cam.bottom,
                        JsDiv(JsMul(JsAdd(ndcY, Int2Num(1)), camHeight), Int2Num(2)))
    IN  [x |-> worldX, y |-> worldY, z |-> Int2Num(0)]

\* TRUE when the handler reaches lines 144-151
MouseMoveMaps == Truthy(dxfViewer) /\ Truthy(canvas) /\ Truthy(camera)

\* ------------------------------------------------------------ event relay
\* a handler that forwards the event without its payload
RelayNoPayload(eventName, e) == [name |-> "dxf-" \o eventName, payload |-> UNDEFINED]

\* line 183: the handler registered for eventName
Relay(eventName, e) == [name |-> "dxf-" \o eventName, payload |-> e]

\* the engine calls every handler subscribed to `name`, in subscription order
Dispatch(name, e) ==
    LET hs == SelectSeq(subscribers, LAMBDA s : s = name)
    IN  [k \in 1..Len(hs) |-> Relay(hs[k], e)]

CoordinateUpdates == SelectSeq(emitted, LAMBDA ev : ev.name = "coordinates-update")

\* ----------------------------------------------------------------- actions
\* mounted(), lines 180-189
Mounted ==
    /\ lifecycle = "created"
    /\ lifecycle' = "mounted"
    /\ dxfViewer' = ENGINE
    /\ subscribers' = subscribers \o EventNames
    /\ UNCHANGED <<dxfUrl, data, loads, camera, canvas, scene, engineLog,
                   emitted>>

\* the dxfUrl prop changes to a non-null url: the watcher calls Load(url),
\* which runs up to its await
Load(url) ==
    /\ lifecycle = "mounted"
    /\ url # dxfUrl
    /\ Len(loads) < MaxLoads
    /\ dxfUrl' = url
    /\ data' = LoadStart(data)
    /\ loads' = Append(loads, NewLoad)
    /\ UNCHANGED <<lifecycle, dxfViewer, camera, canvas, scene, subscribers,
                   engineLog, emitted>>

\* the dxfUrl prop changes to null: the watcher's else branch
Clear ==
    /\ lifecycle = "mounted"
    /\ dxfUrl # NULL
    /\ dxfUrl' = NULL
    /\ scene' = "empty"
    /\ data' = WatchClear(data)
    /\ UNCHANGED <<lifecycle, dxfViewer, loads, camera, canvas, subscribers,
                   engineLog, emitted>>

\* the engine calls progressCbk of a load it has not settled yet
EngineProgress(i, phase, sz) ==
    /\ loads[i].status = "pending"
    /\ data' = OnProgress(data, phase, sz[1], sz[2])
    /\ UNCHANGED <<lifecycle, dxfUrl, dxfViewer, loads, camera, canvas,
                   scene, subscribers, engineLog, emitted>>

\* the engine resolves load i and Load's continuation runs to its end
EngineResolve(i) ==
    /\ loads[i].status = "pending"
    /\ LET r == LoadSettle(data, NONE)
       IN  /\ data' = r.data
           /\ loads' = [loads EXCEPT ![i].status = "resolved",
                                     ![i].result = IF r.thrown = NONE
                                                   THEN "fulfilled"
                                                   ELSE "rejected"]
    /\ scene' = "loaded"
    /\ UNCHANGED <<lifecycle, dxfUrl, dxfViewer, camera, canvas, subscribers,
                   engineLog, emitted>>

\* the engine rejects load i with value v and Load's continuation runs
EngineReject(i, v) ==
    /\ loads[i].status = "pending"
    /\ LET r == LoadSettle(data, v)
       IN  /\ data' = r.data
           /\ loads' = [loads EXCEPT ![i].status = "rejected",
                                     ![i].value = v,
                                     ![i].result = IF r.thrown = NONE
                                                   THEN "fulfilled"
                                                   ELSE "rejected"]
    /\ UNCHANGED <<lifecycle, dxfUrl, dxfViewer, camera, canvas, scene,
                   subscribers, engineLog, emitted>>

\* _OnMouseMove emitting the reading it had before the move
OnMouseMoveEmitsOld(event) ==
    /\ Len(CoordinateUpdates) < MaxEmitted
    /\ IF MouseMoveMaps
       THEN LET c == MapPointer(event, canvas, camera)
            IN  /\ data' = [data EXCEPT !.coordinates = c]
                /\ emitted' = Append(emitted,
                                     [name |-> "coordinates-update",
                                      payload |-> data.coordinates])
       ELSE UNCHANGED <<data, emitted>>
    /\ UNCHANGED <<lifecycle, dxfUrl, dxfViewer, loads, camera, canvas,
                   scene, subscribers, engineLog>>

\* _OnMouseMove dropping the stored reading when it cannot map the pointer
OnMouseMoveClearsOnSkip(event) ==
    /\ Len(CoordinateUpdates) < MaxEmitted
    /\ IF MouseMoveMaps
       THEN LET c == MapPointer(event, canvas, camera)
            IN  /\ data' = [data EXCEPT !.coordinates = c]
                /\ emitted' = Append(emitted,
                                     [name |-> "coordinates-update", payload |-> c])
       ELSE /\ data' = [data EXCEPT !.coordinates = NULL]
            /\ UNCHANGED emitted
    /\ UNCHANGED <<lifecycle, dxfUrl, dxfViewer, loads, camera, canvas,
                   scene, subscribers, engineLog>>

\* a mousemove DOM event on the container
OnMouseMove(event) ==
    /\ Len(CoordinateUpdates) < MaxEmitted
    /\ IF MouseMoveMaps
       THEN LET c == MapPointer(event, canvas, camera)
            IN  /\ data' = [data EXCEPT !.coordinates = c]
                /\ emitted' = Append(emitted,
                                     [name |-> "coordinates-update", payload |-> c])
       ELSE UNCHANGED <<data, emitted>>
    /\ UNCHANGED <<lifecycle, dxfUrl, dxfViewer, loads, camera, canvas,
                   scene, subscribers, engineLog>>

\* the engine replaces its camera (view change, resize, load)
EngineCamera(c) ==
    /\ lifecycle = "mounted"
    /\ c # camera
    /\ camera' = c
    /\ UNCHANGED <<lifecycle, dxfUrl, data, dxfViewer, loads, canvas, scene,
                   subscribers, engineLog, emitted>>

\* the engine's canvas appears, disappears or is laid out anew
EngineCanvas(r) ==
    /\ lifecycle = "mounted"
    /\ r # canvas
    /\ canvas' = r
    /\ UNCHANGED <<lifecycle, dxfUrl, data, dxfViewer, loads, camera, scene,
                   subscribers, engineLog, emitted>>

\* the engine fires one of its events
EngineEvent(name, e) ==
    /\ lifecycle # "created"
    /\ Len(engineLog) < MaxEvents
    /\ engineLog' = Append(engineLog, [name |-> name, payload |-> e])
    /\ emitted' = emitted \o Dispatch(name, e)
    /\ UNCHANGED <<lifecycle, dxfUrl, data, dxfViewer, loads, camera, canvas,
                   scene, subscribers>>

\* destroyed(), lines 191-194
Destroyed ==
    /\ lifecycle = "mounted"
    /\ lifecycle' = "destroyed"
    /\ dxfViewer' = NULL
    /\ UNCHANGED <<dxfUrl, data, loads, camera, canvas, scene, subscribers,
                   engineLog, emitted>>

\* ---------------------------------------------------------- specifications
\* the load controller with pointer moves and teardown
Next ==
    \/ Mounted
    \/ \E url \in Urls : Load(url)
    \/ Clear
    \/ \E i \in DOMAIN loads, phase \in Phases, sz \in Sizes :
          EngineProgress(i, phase, sz)
    \/ \E i \in DOMAIN loads : EngineResolve(i)
    \/ \E i \in DOMAIN loads, v \in RejectValues : EngineReject(i, v)
    \/ \E event \in MouseEvents : OnMouseMove(event)
    \/ \E c \in Cameras \cup {NULL} : EngineCamera(c)
    \/ \E r \in Rects \cup {NULL} : EngineCanvas(r)
    \/ Destroyed

Spec == Init /\ [][Next]_vars

\* the event relay with pointer moves and teardown
NextRelay ==
    \/ Mounted
    \/ \E name \in EngineEventNames, e \in Payloads : EngineEvent(name, e)
    \/ \E event \in MouseEvents : OnMouseMove(event)
    \/ \E c \in Cameras \cup {NULL} : EngineCamera(c)
    \/ \E r \in Rects \cup {NULL} : EngineCanvas(r)
    \/ Destroyed

SpecRelay == Init /\ [][NextRelay]_vars

\* pointer mapping: the engine lays out canvases of several sizes, two of
\* them degenerate, and moves between two cameras
NextPointer ==
    \/ Mounted
    \/ \E event \in PointerEvents : OnMouseMove(event)
    \/ \E c \in PointerCameras \cup {NULL} : EngineCamera(c)
    \/ \E r \in PointerRects \cup {NULL} : EngineCanvas(r)
    \/ Destroyed

SpecPointer == Init /\ [][NextPointer]_vars

\* the progress aggregator: loads with the full range of progress reports
NextProgress ==
    \/ Mounted
    \/ \E url \in Urls : Load(url)
    \/ Clear
    \/ \E i \in DOMAIN loads, phase \in Phases, sz \in ProgressSizes :
          EngineProgress(i, phase, sz)
    \/ \E i \in DOMAIN loads : EngineResolve(i)
    \/ \E i \in DOMAIN loads, v \in RejectValues : EngineReject(i, v)

SpecProgress == Init /\ [][NextProgress]_vars

\* the engine settles every load it was given: a load left pending can
\* always be resolved or rejected, and eventually is
EngineSettles ==
    \E i \in DOMAIN loads :
        EngineResolve(i) \/ \E v \in RejectValues : EngineReject(i, v)

SpecQuiesce == Init /\ [][NextProgress]_vars /\ WF_vars(EngineSettles)

\* seeding of the coordinate reading: loads settling while the engine moves
\* between two cameras, with teardown
NextSeed ==
    \/ Mounted
    \/ \E url \in Urls : Load(url)
    \/ Clear
    \/ \E i \in DOMAIN loads : EngineResolve(i)
    \/ \E i \in DOMAIN loads, v \in RejectValues : EngineReject(i, v)
    \/ \E c \in PointerCameras \cup {NULL} : EngineCamera(c)
    \/ Destroyed

SpecSeed == Init /\ [][NextSeed]_vars

\* ------------------------------------------------------- shared vocabulary
\* the LoadState of the specification, read off the data record
LoadState(d) ==
    [isLoading |-> d.isLoading, error |-> d.error, progress |-> d.progress,
     progressPhase |-> d.curProgressPhase, progressLabel |-> d.progressText]

ProgressCleared(d) ==
    d.progress = NULL /\ d.curProgressPhase = NULL /\ d.progressText = NULL

Pending(i) == i \in DOMAIN loads /\ loads[i].status = "pending"
AllSettled == \A i \in DOMAIN loads : loads[i].status # "pending"

\* load i is settled by this step
Settles(i) == Pending(i) /\ loads'[i].status # "pending"
\* this step is the watcher starting a Load / taking its clear branch
LoadStep == Len(loads') = Len(loads) + 1
ClearStep == dxfUrl # NULL /\ dxfUrl' = NULL

\* the error text a settled load leaves when it is the only one that counts
OutcomeError(l) ==
    IF l.status = "rejected" /\ Truthy(l.value) THEN ErrorToString(l.value) ELSE NULL

\* ------------------------------------------------------------------ claims
\* C1: stale-result suppression.  When Load(B) was invoked before Load(A)
\* settled, A's settlement changes no LoadState field; while the latest load
\* is unsettled (and the URL was not cleared since) isLoading stays true; and
\* once every load has settled the error is the latest load's outcome only.
C1_StaleSuppressed ==
    /\ [][\A i \in DOMAIN loads :
            (Settles(i) /\ i < Len(loads)) => LoadState(data') = LoadState(data)]_vars
    /\ [](dxfUrl # NULL /\ Pending(Len(loads)) => data.isLoading)
    /\ [](dxfUrl # NULL /\ lifecycle = "mounted" /\ loads # <<>> /\ AllSettled
            => data.error = OutcomeError(loads[Len(loads)]))

\* C2: in every state between handler runs, a non-null error implies that
\* isLoading is false.
C2_ErrorImpliesNotLoading == data.error # NULL => data.isLoading = FALSE

\* C2 witness: an error is shown while a later, overlapping load is pending.
C2_Witness ==
    /\ data.error # NULL
    /\ \E i \in DOMAIN loads : loads[i].status = "rejected"
    /\ \E i \in DOMAIN loads : loads[i].status = "pending"

\* C3: whenever isLoading is false, progress, the recorded phase and the
\* label are all null.
C3_IdleProgressNull == ~data.isLoading => ProgressCleared(data)

\* C4: immediately after the URL is cleared, LoadState equals its defaults
\* and the engine has cleared its scene.
C4_ClearResets ==
    [][ClearStep => /\ LoadState(data') = LoadState(Data)
                    /\ scene' = "empty"]_vars

\* C5: while the URL stays cleared (no new Load invoked), no callback of a
\* load still in flight changes LoadState.
C5_LateCallbacksDiscarded ==
    [][(dxfUrl = NULL /\ dxfUrl' = NULL) => LoadState(data') = LoadState(data)]_vars

\* C6: immediately after any load settles, isLoading is false and progress,
\* phase and label are null; error is left as the settlement set it: the
\* text of the rejection value after a failure, the previous error after a
\* success.
C6_SettlementClearsProgress ==
    [][\A i \in DOMAIN loads :
         Settles(i) =>
            /\ ~data'.isLoading
            /\ ProgressCleared(data')
            /\ (loads'[i].status = "rejected" /\ Truthy(loads'[i].value)
                  => data'.error = ErrorToString(loads'[i].value))
            /\ (loads'[i].status = "resolved" /\ Truthy(dxfViewer)
                  => data'.error = data.error)]_vars

\* C6 witness: a load has failed; its error text is shown and the progress
\* fields are cleared.
C6_Witness ==
    /\ \E i \in DOMAIN loads :
          loads[i].status = "rejected" /\ data.error = OutcomeError(loads[i])
    /\ data.error # NULL
    /\ ~data.isLoading
    /\ ProgressCleared(data)

\* C7: for every rejection value, null included, the Load call itself
\* completes normally and error holds a text describing the failure.
C7_FailureCaught ==
    [][\A i \in DOMAIN loads :
         (Settles(i) /\ loads'[i].status = "rejected")
            => loads'[i].result = "fulfilled" /\ data'.error.t = "string"]_vars

\* C8: immediately after Load is invoked isLoading is true and error is null;
\* immediately after the URL is cleared error is null.
C8_RecoveryClearsError ==
    [][/\ LoadStep => (data'.isLoading /\ data'.error = NULL)
       /\ ClearStep => data'.error = NULL]_vars

\* C8 witness: a second Load was invoked after the first had failed and is
\* still loading with no error shown.
C8_Witness ==
    /\ Len(loads) >= 2
    /\ loads[1].status = "rejected" /\ Truthy(loads[1].value)
    /\ \A i \in 2..Len(loads) : loads[i].status = "pending"
    /\ data.isLoading
    /\ data.error = NULL

\* the component is idle: no load in flight and LoadState at its defaults
Idle == AllSettled /\ LoadState(data) = LoadState(Data)

\* C9: clearing the URL of an idle instance changes no LoadState field and
\* leaves the default LoadState; applying the clear branch twice gives the
\* same data as applying it once.
C9_IdempotentReset ==
    /\ [][(ClearStep /\ Idle) => /\ LoadState(data') = LoadState(data)
                                  /\ LoadState(data') = LoadState(Data)]_vars
    /\ [](WatchClear(WatchClear(data)) = WatchClear(data))

\* C9 witness: the only load resolved, then the URL was cleared (the scene
\* is empty again), and LoadState is at its defaults.
C9_Witness ==
    /\ dxfUrl = NULL
    /\ Len(loads) = 1
    /\ loads[1].status = "resolved" /\ loads[1].result = "fulfilled"
    /\ scene = "empty"
    /\ Idle

\* the outward events other than coordinates-update
DxfEvents == SelectSeq(emitted, LAMBDA ev : ev.name # "coordinates-update")

\* C10: while mounted, the outward dxf-* events are exactly the engine's
\* events, one for one and in order, each named "dxf-" + the engine event
\* name and carrying the same payload.
C10_RelayFidelity ==
    lifecycle = "mounted" =>
        DxfEvents = [k \in DOMAIN engineLog |->
                        [name |-> "dxf-" \o engineLog[k].name,
                         payload |-> engineLog[k].payload]]

\* C10 witness: two different engine events were relayed around a
\* coordinates-update.
C10_Witness ==
    /\ lifecycle = "mounted"
    /\ Len(engineLog) >= 2
    /\ engineLog[1].name # engineLog[2].name
    /\ engineLog[1].payload # engineLog[2].payload
    /\ CoordinateUpdates # <<>>

\* C11: once destroyed() has run the engine handle is null and no outward
\* event, dxf-* or coordinates-update, is emitted any more, whatever the
\* engine fires and wherever the pointer moves.
C11_SilentAfterTeardown ==
    /\ [](lifecycle = "destroyed" => dxfViewer = NULL)
    /\ [][lifecycle = "destroyed" => emitted' = emitted]_vars

\* the world point the mapping formula gives for integer inputs:
\* (left + (x/w)(right-left), top - (y/h)(top-bottom), 0) with (x, y) the
\* offset of the pointer inside the canvas rectangle
FormulaWorld(event, rect, cam) ==
    LET x == event.clientX.n - rect.left.n
        y == event.clientY.n - rect.top.n
        w == rect.width.n
        h == rect.height.n
    IN  [x |-> Num(cam.left.n * w + x * (cam.right.n - cam.left.n), w),
         y |-> Num(cam.top.n * h - y * (cam.top.n - cam.bottom.n), h),
         z |-> Num(0, 1)]

NonDegenerate(rect) == rect.width.n # 0 /\ rect.height.n # 0

\* C12: for a canvas of non-zero width and height, a mapped pointer move
\* stores worldX = left + (x/w)(right-left), worldY = top - (y/h)(top-bottom)
\* and worldZ = 0 (in exact arithmetic).
C12_CoordinateMapping ==
    [][\A event \in PointerEvents :
         (OnMouseMove(event) /\ MouseMoveMaps /\ NonDegenerate(canvas))
            => data'.coordinates = FormulaWorld(event, canvas, camera)]_vars

\* C12 witness: with bounds {-10, 10, 10, -10} and a 200x200 canvas the
\* pointer at the bottom-right corner was mapped to (right, bottom, 0).
C12_Witness ==
    /\ camera = Camera(-10, 10, 10, -10)
    /\ canvas = Rect(0, 0, 200, 200)
    /\ emitted # <<>>
    /\ data.coordinates = [x |-> Int2Num(10), y |-> Int2Num(-10), z |-> Int2Num(0)]
    /\ emitted[Len(emitted)].payload = data.coordinates

\* this step is a progress callback: only the data record changes
ProgressStep ==
    /\ data' # data
    /\ UNCHANGED <<lifecycle, dxfUrl, dxfViewer, loads, camera, canvas, scene,
                   subscribers, engineLog, emitted>>

\* this step is the call _OnProgress(phase, sz[1], sz[2])
ProgressCall(phase, sz) ==
    /\ data'.curProgressPhase = Str(phase)
    /\ data' = OnProgress(data, phase, sz[1], sz[2])

\* C13: after a progress callback, progress is -1 when totalSize is null and
\* the unclamped ratio size/totalSize otherwise, for every phase.
C13_ProgressNormalization ==
    [][ProgressStep =>
        \A phase \in Phases, sz \in ProgressSizes :
            ProgressCall(phase, sz)
               => data'.progress = IF sz[2] = NULL THEN Num(-1, 1)
                                   ELSE Num(sz[1].n, sz[2].n)]_vars

\* C13 witness: a load in flight shows the ratio 150/100, above 1.
C13_Witness == data.isLoading /\ data.progress = Num(3, 2)

\* the label table of the progress aggregator
LabelTable ==
    [font |-> "Fetching fonts...", fetch |-> "Fetching file...",
     parse |-> "Parsing file...", prepare |-> "Preparing rendering data..."]

\* C14: a progress callback whose phase differs from the recorded one sets
\* the label to the table entry of the phase; a phase outside the table, or
\* equal to the recorded one, leaves the label unchanged.
C14_ProgressLabel ==
    [][ProgressStep =>
        \A phase \in Phases, sz \in ProgressSizes :
            ProgressCall(phase, sz)
               => data'.progressText =
                     IF Str(phase) # data.curProgressPhase
                        /\ phase \in DOMAIN LabelTable
                     THEN Str(LabelTable[phase])
                     ELSE data.progressText]_vars

\* C14 witness: an unrecognized phase was recorded and the label of the
\* earlier phase is still shown.
C14_Witness ==
    /\ data.curProgressPhase = Str("other")
    /\ data.progressText = Str("Parsing file...")

\* C15: a pointer move that is mapped (engine, canvas and camera present)
\* emits exactly one coordinates-update whose payload is the reading that
\* move stored, with z = 0; a skipped pointer move emits nothing.
C15_CoordinatesUpdate ==
    [][\A event \in PointerEvents :
         OnMouseMove(event) =>
            IF MouseMoveMaps
            THEN /\ emitted' = Append(emitted, [name |-> "coordinates-update",
                                                payload |-> data'.coordinates])
                 /\ data'.coordinates.z = Int2Num(0)
            ELSE emitted' = emitted]_vars

\* C15 witness: with bounds {2, 10, 7, 1} and the canvas at (10, 20) of size
\* 100x50, the pointer at (60, 45) was mapped to (6, 4, 0) and that reading
\* is the payload of the last outward event.
C15_Witness ==
    /\ camera = Camera(2, 10, 7, 1)
    /\ canvas = Rect(10, 20, 100, 50)
    /\ CoordinateUpdates # <<>>
    /\ CoordinateUpdates[Len(CoordinateUpdates)].payload
          = [x |-> Int2Num(6), y |-> Int2Num(4), z |-> Int2Num(0)]
    /\ data.coordinates = [x |-> Int2Num(6), y |-> Int2Num(4), z |-> Int2Num(0)]

FiniteReading(c) == IsFinite(c.x) /\ IsFinite(c.y) /\ IsFinite(c.z)

\* C16: no NaN or infinite coordinate is ever stored or emitted: a pointer
\* move over a canvas of zero width or zero height is skipped.
C16_DegenerateViewportGuard ==
    /\ data.coordinates # NULL => FiniteReading(data.coordinates)
    /\ \A k \in DOMAIN CoordinateUpdates : FiniteReading(CoordinateUpdates[k].payload)

\* C17: a pointer move that finds no engine handle, no canvas or no camera
\* changes neither the data record (coordinate reading, LoadState) nor the
\* outward event trace.
C17_SkippedMoveIsNoOp ==
    [][\A event \in MouseEvents :
         (~MouseMoveMaps /\ OnMouseMove(event)) => UNCHANGED <<data, emitted>>]_vars

\* C17 witness: the component was destroyed while a load is in flight and a
\* reading is stored; a pointer move can arrive and nothing has been emitted.
C17_Witness ==
    /\ lifecycle = "destroyed"
    /\ ~MouseMoveMaps
    /\ data.isLoading
    /\ data.coordinates # NULL
    /\ emitted = <<>>

\* the centre of integer camera bounds
BoundsCentre(cam) ==
    [x |-> Num(cam.left.n + cam.right.n, 2),
     y |-> Num(cam.bottom.n + cam.top.n, 2),
     z |-> Num(0, 1)]

\* C18: when a load resolves while the engine exposes a camera, the reading
\* becomes the centre of the camera bounds current at that moment; a load
\* that fails leaves the reading unchanged.
C18_SeedAtCentre ==
    [][\A i \in DOMAIN loads :
         Settles(i) =>
            /\ (loads'[i].status = "resolved" /\ Truthy(dxfViewer) /\ Truthy(camera))
                  => data'.coordinates = BoundsCentre(camera)
            /\ loads'[i].status = "rejected"
                  => data'.coordinates = data.coordinates]_vars

\* C18 witness: the first load resolved under bounds {2, 10, 7, 1} and seeded
\* (6, 4, 0); the camera has changed since and the second load failed, and
\* the reading is still (6, 4, 0).
C18_Witness ==
    /\ Len(loads) = 2
    /\ loads[1].status = "resolved" /\ loads[1].result = "fulfilled"
    /\ loads[2].status = "rejected"
    /\ camera = Camera(-10, 10, 10, -10)
    /\ data.coordinates = [x |-> Int2Num(6), y |-> Int2Num(4), z |-> Int2Num(0)]

\* C19: a load that resolves successfully never sets error: if error was
\* null before the settlement it is null after it, also when the component
\* was destroyed, cleared or given another load in between.
C19_SuccessLeavesErrorNull ==
    [][\A i \in DOMAIN loads :
         (Settles(i) /\ loads'[i].status = "resolved" /\ data.error = NULL)
            => data'.error = NULL]_vars

\* no load is active and the progress fields are clear
Quiet == ~data.isLoading /\ ProgressCleared(data)

\* C20: whenever every started load has settled the state is quiet
\* (isLoading false, progress, phase and label null), and, the engine
\* settling every load, the component ends up settled and quiet for good.
C20_Quiescence ==
    /\ [](AllSettled => Quiet)
    /\ <>[](AllSettled /\ Quiet)

\* C20 witness: two loads and a clear later, everything has settled and the
\* state is quiet.
C20_Witness ==
    /\ Len(loads) >= 2
    /\ AllSettled
    /\ dxfUrl = NULL
    /\ Quiet

====
